---- MODULE Spec2Model ----
(***************************************************************************)
(* Model of the Meteora DAMM "claim LP token" instruction of virtual-curve *)
(* (instructions/migration/meteora_damm/meteora_damm_claim_lp_token.rs).   *)
(*                                                                         *)
(* One invocation of the instruction is one action: the host serialises    *)
(* invocations on the accounts they touch, and discards every account      *)
(* write of an invocation that returns Err.                                *)
(***************************************************************************)
EXTENDS Integers, FiniteSets, Sequences, TLC

\* ------------------------------------------------------------------ bounds
\* largest LP entitlement of one role drawn at ledger creation
MaxLp == 2
\* largest amount by which the custody account is short of the two
\* entitlements when the ledger is created
MaxShortfall == 1

\* ------------------------------------------------------------ value spaces
\* public keys that can appear as owner / sender / token account authority
Identities == {"k1", "k2", "k3"}
\* public keys that sign an invocation: a beneficiary and a third party
Senders == {"k1", "k3"}
\* virtual pools known to the program; the ledger is bound to one of them
Pools == {"poolA", "poolB"}
\* token mints; the ledger governs one of them
Mints == {"lpMint", "otherMint"}

Roles == {"Partner", "Creator"}
NoRole == "None"

\* MigrationProgress (state module): the stages of the outer migration, in
\* order; CreatedPool is the one the handler compares against (line 83)
CreatedPool == "CreatedPool"
MigrationProgress == <<"PreBondingCurve", "PostBondingCurve", "LockedVesting", CreatedPool>>
ProgressValues == {MigrationProgress[i] : i \in 1..Len(MigrationProgress)}

\* PoolError codes used by the handler
NotPermitToDoThisAction == "NotPermitToDoThisAction"
InvalidOwnerAccount == "InvalidOwnerAccount"
\* error of the token program, propagated by `?` (lines 72, 100, 113)
TokenProgramError == "TokenProgramError"
\* error of the account constraints, raised before the handler runs
ConstraintViolation == "ConstraintViolation"
NoError == "NoError"

\* the error code the handler returns for each failure condition of the spec
NotEligibleYet == NotPermitToDoThisAction
AlreadyClaimed == NotPermitToDoThisAction
NothingToClaim == NotPermitToDoThisAction
UnauthorizedCaller == InvalidOwnerAccount

\* the checks of the handler, as labels of where an invocation failed
CheckProgress == "progress"
CheckOwner == "owner"
CheckClaimed == "claimed"
CheckAmount == "amount"
CheckTransfer == "transfer"
CheckAccounts == "accounts"
CheckNone == "none"

\* what the handler does after its checks, as labels of the steps it took
StepSetFlag == "set_flag"
StepTransfer == "transfer_call"

\* the value of a successful handler: Result<()> carries the unit value
Unit == <<>>

VARIABLES
    metadata,    \* MeteoraDammMigrationMetadata account (the claim ledger)
    progress,    \* migration progress of every virtual pool
    token,       \* LP token balances: custody account and per-owner accounts
    lastResult,  \* outcome of the latest claim invocation
    xferCount,   \* per role: committed transfers made on its behalf
    paid,        \* per role: committed amount transferred on its behalf
    errSeen      \* <<error code, failed check>> pairs returned so far

vars == <<metadata, progress, token, lastResult, xferCount, paid, errSeen>>

\* -------------------------------------------------- state module accessors
get_migration_progress(virtual_pool) == virtual_pool.migration_progress

is_partner_claim_lp(md) == md.partner_claim_status

is_creator_claim_lp(md) == md.creator_claim_status

set_partner_claim_status(md) == [md EXCEPT !.partner_claim_status = TRUE]

set_creator_claim_status(md) == [md EXCEPT !.creator_claim_status = TRUE]

\* ------------------------------------------------------- instruction input
\* the accounts a caller can pass to the instruction
AnyCtx ==
    [virtual_pool : Pools,
     lp_mint : Mints,
     destination_token : Identities,   \* authority of the account passed
     owner : Identities,
     sender : Senders,
     token_ok : BOOLEAN]               \* token program accepts the accounts

\* the number of accounts of `ctx` that are not the ones the ledger `md` names
WrongAccounts(ctx, md) ==
    (IF ctx.lp_mint = md.lp_mint THEN 0 ELSE 1)
    + (IF ctx.virtual_pool = md.virtual_pool THEN 0 ELSE 1)
    + (IF ctx.destination_token = ctx.owner THEN 0 ELSE 1)

\* the invocations explored: every owner, sender and token program answer,
\* with at most one account substituted
MigrateMeteoraDammClaimLpTokenCtx == {ctx \in AnyCtx : WrongAccounts(ctx, metadata) <= 1}

\* variant: the destination account is not tied to the owner
AccountsConstraints_any_destination(ctx, md) ==
    /\ ctx.lp_mint = md.lp_mint
    /\ ctx.virtual_pool = md.virtual_pool

\* #[account(...)] constraints, checked before the handler is entered
AccountsConstraints(ctx, md) ==
    /\ ctx.lp_mint = md.lp_mint                  \* has_one = lp_mint
    /\ ctx.virtual_pool = md.virtual_pool        \* has_one = virtual_pool
    /\ ctx.destination_token = ctx.owner         \* associated_token::authority = owner

\* ------------------------------------------------------------ CPI transfer
\* token program transfer of `amount` from the custody account to the
\* destination account: all of it moves, or the call fails
transfer(ctx, amount, tok) ==
    IF ctx.token_ok /\ amount <= tok.source
    THEN [ok |-> TRUE,
          token |-> [source |-> tok.source - amount,
                     dest |-> [tok.dest EXCEPT ![ctx.destination_token] = @ + amount]]]
    ELSE [ok |-> FALSE, token |-> tok]

\* ----------------------------------------------------------------- handler
Fail(err, check, role, md, tok) ==
    [ok |-> FALSE, err |-> err, check |-> check, role |-> role, value |-> Unit,
     metadata |-> md, token |-> tok, amount |-> 0, dest |-> NoRole, moved |-> FALSE,
     steps |-> <<>>, xfer |-> <<>>]

Done(role, md, amount, ctx, t) ==
    [ok |-> TRUE, err |-> NoError, check |-> CheckNone, role |-> role, value |-> Unit,
     metadata |-> md, token |-> t.token, amount |-> amount,
     dest |-> ctx.destination_token, moved |-> t.ok,
     steps |-> <<>>, xfer |-> <<>>]

\* the result r of a branch that took `steps`, one of them the call
\* self.transfer(bump, amount) with answer t; flag is what the role's claimed
\* flag read in the loaded ledger when the call was made
WithTransfer(r, steps, role, amount, flag, t) ==
    [r EXCEPT !.steps = steps,
              !.xfer = <<[role |-> role, amount |-> amount, flag |-> flag, ok |-> t.ok]>>]

\* the result r of the handler, returned after the checks `done` were made
After(done, r) == [r EXCEPT !.steps = done \o @]

\* variant: the progress check is left out
require_created_pool_skipped(virtual_pool) == TRUE

\* require!(progress == CreatedPool, NotPermitToDoThisAction)
require_created_pool(virtual_pool) == get_migration_progress(virtual_pool) = CreatedPool

\* variant: the partner's claimed flag is not checked
require_partner_not_claimed_skipped(md) == TRUE

\* require!(!is_partner_claim_lp(), NotPermitToDoThisAction)
require_partner_not_claimed(md) == ~is_partner_claim_lp(md)

\* variant: a zero partner entitlement is let through
require_partner_lp_skipped(md) == TRUE

\* require!(partner_lp != 0, NotPermitToDoThisAction)
require_partner_lp(md) == md.partner_lp # 0

\* variant: the transfer's Result is dropped instead of propagated with `?`
claim_partner_ignoring_transfer(ctx, md, tok) ==
    LET md2 == set_partner_claim_status(md)
        t == transfer(ctx, md2.partner_lp, tok)
    IN WithTransfer(Done("Partner", md2, md2.partner_lp, ctx, t),
                    <<StepSetFlag, StepTransfer>>,
                    "Partner", md2.partner_lp, is_partner_claim_lp(md2), t)

\* variant: the entitlement is zeroed once it has been paid out
claim_partner_zeroing_amount(ctx, md, tok) ==
    LET md2 == set_partner_claim_status(md)
        t == transfer(ctx, md2.partner_lp, tok)
        md3 == [md2 EXCEPT !.partner_lp = 0]
    IN WithTransfer(IF t.ok
                    THEN Done("Partner", md3, md2.partner_lp, ctx, t)
                    ELSE Fail(TokenProgramError, CheckTransfer, "Partner", md2, t.token),
                    <<StepSetFlag, StepTransfer>>,
                    "Partner", md2.partner_lp, is_partner_claim_lp(md2), t)

\* variant: the transfer is made first and the flag set after it returned
claim_partner_transfer_first(ctx, md, tok) ==
    LET t == transfer(ctx, md.partner_lp, tok)
        md2 == set_partner_claim_status(md)
    IN IF t.ok
       THEN WithTransfer(Done("Partner", md2, md2.partner_lp, ctx, t),
                         <<StepTransfer, StepSetFlag>>,
                         "Partner", md.partner_lp, is_partner_claim_lp(md), t)
       ELSE WithTransfer(Fail(TokenProgramError, CheckTransfer, "Partner", md, t.token),
                         <<StepTransfer>>,
                         "Partner", md.partner_lp, is_partner_claim_lp(md), t)

\* set_partner_claim_status(); transfer(bump, partner_lp)?
claim_partner(ctx, md, tok) ==
    LET md2 == set_partner_claim_status(md)
        t == transfer(ctx, md2.partner_lp, tok)
    IN WithTransfer(IF t.ok
                    THEN Done("Partner", md2, md2.partner_lp, ctx, t)
                    ELSE Fail(TokenProgramError, CheckTransfer, "Partner", md2, t.token),
                    <<StepSetFlag, StepTransfer>>,
                    "Partner", md2.partner_lp, is_partner_claim_lp(md2), t)

\* variant: the creator's claimed flag is not checked
require_creator_not_claimed_skipped(md) == TRUE

\* variant: the creator branch tests the partner's flag
require_creator_not_claimed_partner_flag(md) == ~is_partner_claim_lp(md)

\* require!(!is_creator_claim_lp(), NotPermitToDoThisAction)
require_creator_not_claimed(md) == ~is_creator_claim_lp(md)

\* variant: the creator's amount is compared with 1 instead of 0
require_creator_lp_above_one(md) == md.creator_lp > 1

\* variant: a zero creator entitlement is let through
require_creator_lp_skipped(md) == TRUE

\* require!(creator_lp != 0, NotPermitToDoThisAction)
require_creator_lp(md) == md.creator_lp # 0

\* variant: the creator branch transfers the partner's amount
claim_creator_partner_amount(ctx, md, tok) ==
    LET md2 == set_creator_claim_status(md)
        t == transfer(ctx, md2.partner_lp, tok)
    IN WithTransfer(IF t.ok
                    THEN Done("Creator", md2, md2.partner_lp, ctx, t)
                    ELSE Fail(TokenProgramError, CheckTransfer, "Creator", md2, t.token),
                    <<StepSetFlag, StepTransfer>>,
                    "Creator", md2.partner_lp, is_creator_claim_lp(md2), t)

\* variant: the creator branch writes the claim status of both roles,
\* clearing the partner's
claim_creator_clearing_partner(ctx, md, tok) ==
    LET md2 == [set_creator_claim_status(md) EXCEPT !.partner_claim_status = FALSE]
        t == transfer(ctx, md2.creator_lp, tok)
    IN WithTransfer(IF t.ok
                    THEN Done("Creator", md2, md2.creator_lp, ctx, t)
                    ELSE Fail(TokenProgramError, CheckTransfer, "Creator", md2, t.token),
                    <<StepSetFlag, StepTransfer>>,
                    "Creator", md2.creator_lp, is_creator_claim_lp(md2), t)

\* set_creator_claim_status(); transfer(bump, creator_lp)?
claim_creator(ctx, md, tok) ==
    LET md2 == set_creator_claim_status(md)
        t == transfer(ctx, md2.creator_lp, tok)
    IN WithTransfer(IF t.ok
                    THEN Done("Creator", md2, md2.creator_lp, ctx, t)
                    ELSE Fail(TokenProgramError, CheckTransfer, "Creator", md2, t.token),
                    <<StepSetFlag, StepTransfer>>,
                    "Creator", md2.creator_lp, is_creator_claim_lp(md2), t)

\* variant: the final else treats every other owner as the creator
resolve_owner_else_creator(ctx, md) ==
    IF ctx.owner = md.partner THEN "Partner" ELSE "Creator"

\* variant: the pool creator is compared first
resolve_owner_creator_first(ctx, md) ==
    IF ctx.owner = md.pool_creator THEN "Creator"
    ELSE IF ctx.owner = md.partner THEN "Partner"
    ELSE NoRole

\* variant: an owner whose partner share is already claimed falls through to
\* the comparison with the pool creator
resolve_owner_unclaimed_first(ctx, md) ==
    IF ctx.owner = md.partner /\ ~is_partner_claim_lp(md) THEN "Partner"
    ELSE IF ctx.owner = md.pool_creator THEN "Creator"
    ELSE IF ctx.owner = md.partner THEN "Partner"
    ELSE NoRole

\* the if / else if / else on owner.key(): partner is compared first
resolve_owner(ctx, md) ==
    IF ctx.owner = md.partner THEN "Partner"
    ELSE IF ctx.owner = md.pool_creator THEN "Creator"
    ELSE NoRole

\* variant: the final else returns the same code as the require! checks
reject_owner_not_permit(md, tok) == Fail(NotPermitToDoThisAction, CheckOwner, NoRole, md, tok)

\* return Err(PoolError::InvalidOwnerAccount.into())
reject_owner(md, tok) == Fail(InvalidOwnerAccount, CheckOwner, NoRole, md, tok)

\* result of one run of the handler on the account data it loaded; the
\* record holds the in-memory account data at the point of return
handle_migrate_meteora_damm_claim_lp_token(ctx, md, prog, tok) ==
    LET virtual_pool == [migration_progress |-> prog[ctx.virtual_pool]]
        role == resolve_owner(ctx, md)
    IN
    IF ~require_created_pool(virtual_pool)
    THEN After(<<CheckProgress>>,
               Fail(NotPermitToDoThisAction, CheckProgress, NoRole, md, tok))
    ELSE IF role = "Partner"
    THEN IF ~require_partner_not_claimed(md)
         THEN After(<<CheckProgress, CheckOwner, CheckClaimed>>,
                    Fail(NotPermitToDoThisAction, CheckClaimed, "Partner", md, tok))
         ELSE IF ~require_partner_lp(md)
         THEN After(<<CheckProgress, CheckOwner, CheckClaimed, CheckAmount>>,
                    Fail(NotPermitToDoThisAction, CheckAmount, "Partner", md, tok))
         ELSE After(<<CheckProgress, CheckOwner, CheckClaimed, CheckAmount>>,
                    claim_partner(ctx, md, tok))
    ELSE IF role = "Creator"
    THEN IF ~require_creator_not_claimed(md)
         THEN After(<<CheckProgress, CheckOwner, CheckClaimed>>,
                    Fail(NotPermitToDoThisAction, CheckClaimed, "Creator", md, tok))
         ELSE IF ~require_creator_lp(md)
         THEN After(<<CheckProgress, CheckOwner, CheckClaimed, CheckAmount>>,
                    Fail(NotPermitToDoThisAction, CheckAmount, "Creator", md, tok))
         ELSE After(<<CheckProgress, CheckOwner, CheckClaimed, CheckAmount>>,
                    claim_creator(ctx, md, tok))
    ELSE After(<<CheckProgress, CheckOwner>>, reject_owner(md, tok))

\* the host keeps the account writes of an invocation only if it returned Ok
HostCommit(r, pre) ==
    IF r.ok THEN r ELSE [r EXCEPT !.metadata = pre.metadata, !.token = pre.token]

\* one invocation on the state (md, prog, tok): account constraints, then the
\* handler, then the host's commit or rollback
Invoke(ctx, md, prog, tok) ==
    IF ~AccountsConstraints(ctx, md)
    THEN [Fail(ConstraintViolation, CheckAccounts, NoRole, md, tok) EXCEPT !.value = Unit]
    ELSE HostCommit(handle_migrate_meteora_damm_claim_lp_token(ctx, md, prog, tok),
                    [metadata |-> md, token |-> tok])

\* what the caller observes of an invocation
Outcome(r, ctx, entered) ==
    [entered |-> entered, ok |-> r.ok, err |-> r.err, check |-> r.check,
     role |-> r.role, amount |-> r.amount, dest |-> r.dest, value |-> r.value,
     owner |-> ctx.owner, sender |-> ctx.sender,
     steps |-> r.steps, xfer |-> r.xfer]

NoCall == [owner |-> NoRole, sender |-> NoRole]

\* ----------------------------------------------------------------- actions
Init ==
    /\ \E pc \in {"k1", "k2"}, pl \in 0..MaxLp, cl \in 0..MaxLp :
          metadata = [virtual_pool |-> "poolA", lp_mint |-> "lpMint",
                      partner |-> "k1", pool_creator |-> pc,
                      partner_lp |-> pl, creator_lp |-> cl,
                      partner_claim_status |-> FALSE,
                      creator_claim_status |-> FALSE]
    /\ \E p \in ProgressValues : progress = [poolA |-> p, poolB |-> CreatedPool]
    /\ \E short \in 0..MaxShortfall :
          LET funded == metadata.partner_lp + metadata.creator_lp
          IN token = [source |-> IF funded > short THEN funded - short ELSE 0,
                      dest |-> [i \in Identities |-> 0]]
    /\ lastResult = Outcome(Fail(NoError, CheckNone, NoRole, metadata, token), NoCall, FALSE)
    /\ xferCount = [r \in Roles |-> 0]
    /\ paid = [r \in Roles |-> 0]
    /\ errSeen = {}

\* one invocation of the instruction with the accounts `ctx`
Claim(ctx) ==
    LET r == Invoke(ctx, metadata, progress, token)
        entered == AccountsConstraints(ctx, metadata)
        done == r.ok /\ r.moved
    IN /\ metadata' = r.metadata
       /\ token' = r.token
       /\ lastResult' = Outcome(r, IF entered THEN ctx ELSE NoCall, entered)
       /\ xferCount' = IF done THEN [xferCount EXCEPT ![r.role] = @ + 1] ELSE xferCount
       /\ paid' = IF done THEN [paid EXCEPT ![r.role] = @ + r.amount] ELSE paid
       /\ errSeen' = IF r.ok \/ ~entered THEN errSeen ELSE errSeen \cup {<<r.err, r.check>>}
       /\ UNCHANGED progress

\* the outer migration moves the ledger's pool to its next stage
AdvanceProgress ==
    /\ \E i \in 1..(Len(MigrationProgress) - 1) :
          /\ progress[metadata.virtual_pool] = MigrationProgress[i]
          /\ progress' = [progress EXCEPT ![metadata.virtual_pool] = MigrationProgress[i + 1]]
    /\ UNCHANGED <<metadata, token, lastResult, xferCount, paid, errSeen>>

Next ==
    \/ \E ctx \in MigrateMeteoraDammClaimLpTokenCtx : Claim(ctx)
    \/ AdvanceProgress

Spec == Init /\ [][Next]_vars

\* ------------------------------------------------------------- properties
TypeOK ==
    /\ metadata.partner_claim_status \in BOOLEAN
    /\ metadata.creator_claim_status \in BOOLEAN
    /\ token.source \in 0..(2 * MaxLp)
    /\ progress["poolA"] \in ProgressValues

FlagOf(md, r) == IF r = "Partner" THEN md.partner_claim_status ELSE md.creator_claim_status
LpOf(md, r) == IF r = "Partner" THEN md.partner_lp ELSE md.creator_lp

\* the identity `owner` claims as role r: it is that role's recorded identity
\* (an identity recorded for both roles claims as Partner)
ClaimsAs(owner, md, r) ==
    IF r = "Partner" THEN owner = md.partner
    ELSE owner = md.pool_creator /\ owner # md.partner

\* the ledger's pool is at the required checkpoint
AtCheckpoint == progress[metadata.virtual_pool] = CreatedPool

\* this step is an invocation in which the handler ran
ClaimStep == progress' = progress /\ lastResult'.entered

\* this step changed neither the ledger nor any balance nor the payment history
NothingChanged ==
    /\ metadata' = metadata
    /\ token' = token
    /\ xferCount' = xferCount
    /\ paid' = paid

\* C1: no double payment. No role is ever paid twice, and once a transfer was
\* made for a role every later claim as that role fails with AlreadyClaimed
\* at the claimed-flag check, moving nothing.
C1_NoDoublePayment ==
    /\ [](\A r \in Roles : xferCount[r] <= 1)
    /\ [][\A r \in Roles :
            (ClaimStep /\ ClaimsAs(lastResult'.owner, metadata, r) /\ xferCount[r] >= 1)
            => /\ ~lastResult'.ok
               /\ lastResult'.err = AlreadyClaimed
               /\ lastResult'.check = CheckClaimed
               /\ NothingChanged]_vars

C1_Witness ==
    /\ lastResult.entered
    /\ lastResult.check = CheckClaimed
    /\ lastResult.role \in Roles
    /\ xferCount[lastResult.role] = 1

\* C2: while the pool is not at CreatedPool every claim, whoever the owner
\* is, fails with NotEligibleYet at the progress check and changes nothing.
C2_NotEligibleYet ==
    [][(ClaimStep /\ ~AtCheckpoint)
       => /\ ~lastResult'.ok
          /\ lastResult'.err = NotEligibleYet
          /\ lastResult'.check = CheckProgress
          /\ NothingChanged]_vars

C2_Witness ==
    /\ lastResult.entered
    /\ lastResult.check = CheckProgress
    /\ lastResult.owner = metadata.partner
    /\ metadata.partner_lp > 0
    /\ ~AtCheckpoint
    /\ ~metadata.partner_claim_status

\* C3 as stated: every claim whose owner is neither the partner nor the pool
\* creator fails with UnauthorizedCaller and changes nothing.
C3_Original ==
    [][(ClaimStep /\ lastResult'.owner \notin {metadata.partner, metadata.pool_creator})
       => /\ ~lastResult'.ok
          /\ lastResult'.err = UnauthorizedCaller
          /\ NothingChanged]_vars

\* C3 amended: a claim whose owner is neither the partner nor the pool creator
\* changes nothing; it fails with UnauthorizedCaller when the pool is at
\* CreatedPool, and with NotEligibleYet (the progress check comes first)
\* when it is not.
C3_UnauthorizedCaller ==
    [][(ClaimStep /\ lastResult'.owner \notin {metadata.partner, metadata.pool_creator})
       => /\ ~lastResult'.ok
          /\ NothingChanged
          /\ AtCheckpoint => (lastResult'.err = UnauthorizedCaller /\ lastResult'.check = CheckOwner)
          /\ ~AtCheckpoint => (lastResult'.err = NotEligibleYet /\ lastResult'.check = CheckProgress)]_vars

C3_Witness ==
    /\ lastResult.entered
    /\ lastResult.check = CheckOwner
    /\ lastResult.err = InvalidOwnerAccount
    /\ lastResult.owner \notin {metadata.partner, metadata.pool_creator}

\* the identity whose token account is credited for role r
IdOf(md, r) == IF r = "Partner" THEN md.partner ELSE md.pool_creator

\* this step flipped the flag of role r, left the other flag alone and moved
\* exactly r's entitlement from the custody account to `owner`'s account
FullClaim(r, owner) ==
    /\ ~FlagOf(metadata, r) /\ FlagOf(metadata', r)
    /\ \A o \in Roles \ {r} : FlagOf(metadata', o) = FlagOf(metadata, o)
    /\ token'.source = token.source - LpOf(metadata, r)
    /\ token'.dest = [token.dest EXCEPT ![owner] = @ + LpOf(metadata, r)]
    /\ xferCount' = [xferCount EXCEPT ![r] = @ + 1]
    /\ paid' = [paid EXCEPT ![r] = @ + LpOf(metadata, r)]

\* C4: atomicity. Between invocations a role's flag is true exactly when its
\* one transfer happened, for its whole entitlement; every invocation either
\* flips one flag and moves the funds or changes nothing; and an invocation
\* whose transfer failed leaves the role's flag false and moves nothing.
C4_Atomicity ==
    /\ [](\A r \in Roles :
            /\ FlagOf(metadata, r) <=> xferCount[r] = 1
            /\ paid[r] = IF FlagOf(metadata, r) THEN LpOf(metadata, r) ELSE 0)
    /\ [][ClaimStep =>
            /\ \/ ~lastResult'.ok /\ NothingChanged
               \/ lastResult'.ok /\ lastResult'.role \in Roles
                  /\ FullClaim(lastResult'.role, lastResult'.owner)
            /\ lastResult'.check = CheckTransfer =>
                  /\ ~lastResult'.ok
                  /\ lastResult'.role \in Roles
                  /\ ~FlagOf(metadata', lastResult'.role)
                  /\ NothingChanged]_vars

C4_Witness ==
    /\ lastResult.entered
    /\ lastResult.check = CheckTransfer
    /\ lastResult.err = TokenProgramError
    /\ lastResult.role = "Partner"
    /\ ~metadata.partner_claim_status
    /\ xferCount["Partner"] = 0

\* the four failure conditions of the gate
GateChecks == {CheckProgress, CheckClaimed, CheckAmount, CheckOwner}

\* C5 as stated: two failures of the gate at different checks never carry the
\* same error code.
C5_Original ==
    \A p \in errSeen, q \in errSeen :
        (p[2] \in GateChecks /\ q[2] \in GateChecks /\ p[2] # q[2]) => p[1] # q[1]

\* C5 amended: the error code tells 'identity matches neither role'
\* (InvalidOwnerAccount) apart from the other three conditions, which all
\* return the one code NotPermitToDoThisAction.
C5_ErrorCodes ==
    \A p \in errSeen :
        /\ p[2] = CheckOwner <=> p[1] = InvalidOwnerAccount
        /\ p[2] \in {CheckProgress, CheckClaimed, CheckAmount} <=> p[1] = NotPermitToDoThisAction

C5_Witness ==
    /\ <<InvalidOwnerAccount, CheckOwner>> \in errSeen
    /\ {<<NotPermitToDoThisAction, c>> : c \in {CheckProgress, CheckClaimed, CheckAmount}} \subseteq errSeen

\* C6: zero-entitlement guard. A role whose entitlement is 0 never has its
\* flag set and is never paid, and every claim as that role fails with
\* NothingToClaim and changes nothing; at the checkpoint it is the amount
\* check that fails.
C6_ZeroEntitlement ==
    /\ [](\A r \in Roles : LpOf(metadata, r) = 0 =>
            /\ ~FlagOf(metadata, r)
            /\ xferCount[r] = 0
            /\ paid[r] = 0)
    /\ [][\A r \in Roles :
            (ClaimStep /\ ClaimsAs(lastResult'.owner, metadata, r) /\ LpOf(metadata, r) = 0)
            => /\ ~lastResult'.ok
               /\ lastResult'.err = NothingToClaim
               /\ AtCheckpoint => lastResult'.check = CheckAmount
               /\ NothingChanged]_vars

C6_Witness ==
    /\ lastResult.entered
    /\ lastResult.check = CheckAmount
    /\ lastResult.role = "Partner"
    /\ lastResult.owner = metadata.partner
    /\ metadata.partner_lp = 0
    /\ AtCheckpoint

\* C7 as stated: a successful claim reports (role, amount).
C7_Original ==
    [][\A r \in Roles :
        (ClaimStep /\ lastResult'.ok /\ ClaimsAs(lastResult'.owner, metadata, r))
        => lastResult'.value = <<r, LpOf(metadata, r)>>]_vars

\* C7 amended: a claim succeeds only at the checkpoint, as a role whose flag
\* is false and whose entitlement is positive; it sets that role's flag,
\* moves exactly that role's entitlement (never the other role's) to the
\* owner's account, and returns Ok(()): no role or amount is returned.
C7_SuccessfulClaim ==
    [][\A r \in Roles :
        (ClaimStep /\ lastResult'.ok /\ ClaimsAs(lastResult'.owner, metadata, r))
        => /\ AtCheckpoint
           /\ ~FlagOf(metadata, r)
           /\ LpOf(metadata, r) > 0
           /\ FullClaim(r, lastResult'.owner)
           /\ lastResult'.role = r
           /\ lastResult'.amount = LpOf(metadata, r)
           /\ lastResult'.value = Unit]_vars

C7_Witness ==
    /\ lastResult.entered
    /\ lastResult.ok
    /\ lastResult.role = "Creator"
    /\ lastResult.amount = metadata.creator_lp
    /\ metadata.creator_lp # metadata.partner_lp
    /\ metadata.partner_lp > 0
    /\ metadata.creator_claim_status
    /\ token.dest[metadata.pool_creator] = metadata.creator_lp

\* what an invocation with accounts `ctx` would do in the current state
InvokeNow(ctx) == Invoke(ctx, metadata, progress, token)

\* C8: funds only reach rightful beneficiaries. A step that moves funds
\* credits only the account of the owner that was matched against the
\* ledger, that owner is the partner or the pool creator, and the flag
\* flipped is the one of the role it matched; and the result of an
\* invocation (success, error, ledger, balances, amount, destination) is the
\* same whoever the sender is.
C8_RightfulBeneficiary ==
    /\ [][(ClaimStep /\ token' # token) =>
            /\ lastResult'.ok
            /\ lastResult'.owner \in {metadata.partner, metadata.pool_creator}
            /\ lastResult'.dest = lastResult'.owner
            /\ \A i \in Identities \ {lastResult'.owner} : token'.dest[i] = token.dest[i]
            /\ token'.dest[lastResult'.owner] > token.dest[lastResult'.owner]
            /\ \E r \in Roles :
                  /\ ClaimsAs(lastResult'.owner, metadata, r)
                  /\ IdOf(metadata, r) = lastResult'.owner
                  /\ FullClaim(r, lastResult'.owner)]_vars
    /\ [](\A ctx \in MigrateMeteoraDammClaimLpTokenCtx, s \in Senders :
            InvokeNow([ctx EXCEPT !.sender = s]) = InvokeNow(ctx))

C8_Witness ==
    /\ lastResult.entered
    /\ lastResult.ok
    /\ lastResult.sender # lastResult.owner
    /\ lastResult.owner = metadata.pool_creator
    /\ lastResult.dest = lastResult.owner
    /\ token.dest[lastResult.owner] > 0
    /\ \A i \in Identities \ {lastResult.owner} : token.dest[i] = 0

\* C9 as stated: a claim as one role never changes the other role's flag, and
\* once one role has claimed, a claim as the other role at the checkpoint,
\* with positive entitlement and flag false, succeeds.
C9_Original ==
    [][ClaimStep =>
        /\ lastResult'.owner = metadata.partner =>
              metadata'.creator_claim_status = metadata.creator_claim_status
        /\ ClaimsAs(lastResult'.owner, metadata, "Creator") =>
              metadata'.partner_claim_status = metadata.partner_claim_status
        /\ (ClaimsAs(lastResult'.owner, metadata, "Creator") /\ metadata.partner_claim_status
               /\ AtCheckpoint /\ metadata.creator_lp > 0 /\ ~metadata.creator_claim_status)
           => lastResult'.ok
        /\ (lastResult'.owner = metadata.partner /\ metadata.creator_claim_status
               /\ AtCheckpoint /\ metadata.partner_lp > 0 /\ ~metadata.partner_claim_status)
           => lastResult'.ok]_vars

\* C9 amended: a claim as one role never changes the other role's flag; and
\* once one role has claimed, a claim as the other role at the checkpoint,
\* with positive entitlement and flag false, passes every check of the gate:
\* it succeeds if the transfer succeeds and fails with the token program's
\* error, changing nothing, if it does not. (An identity recorded for both
\* roles claims as Partner.)
C9_Independence ==
    [][ClaimStep =>
        /\ lastResult'.owner = metadata.partner =>
              metadata'.creator_claim_status = metadata.creator_claim_status
        /\ ClaimsAs(lastResult'.owner, metadata, "Creator") =>
              metadata'.partner_claim_status = metadata.partner_claim_status
        /\ (ClaimsAs(lastResult'.owner, metadata, "Creator") /\ metadata.partner_claim_status
               /\ AtCheckpoint /\ metadata.creator_lp > 0 /\ ~metadata.creator_claim_status)
           => \/ lastResult'.ok /\ metadata'.creator_claim_status
              \/ lastResult'.check = CheckTransfer /\ NothingChanged
        /\ (lastResult'.owner = metadata.partner /\ metadata.creator_claim_status
               /\ AtCheckpoint /\ metadata.partner_lp > 0 /\ ~metadata.partner_claim_status)
           => \/ lastResult'.ok /\ metadata'.partner_claim_status
              \/ lastResult'.check = CheckTransfer /\ NothingChanged]_vars

C9_Witness ==
    /\ lastResult.entered
    /\ lastResult.ok
    /\ lastResult.role = "Creator"
    /\ metadata.partner_claim_status
    /\ metadata.creator_claim_status
    /\ paid["Partner"] = metadata.partner_lp
    /\ paid["Creator"] = metadata.creator_lp

\* C10: flag monotonicity. No step, whatever the invocation's outcome, takes
\* partner_claimed or creator_claimed from true to false; so each flag
\* changes at most once, from false to true.
C10_FlagMonotonic ==
    [][/\ metadata.partner_claim_status => metadata'.partner_claim_status
       /\ metadata.creator_claim_status => metadata'.creator_claim_status]_vars

C10_Witness ==
    /\ lastResult.entered
    /\ ~lastResult.ok
    /\ lastResult.role = "Creator"
    /\ lastResult.check \in {CheckClaimed, CheckTransfer}
    /\ metadata.partner_claim_status

\* the ledger fields the claim operation only reads
FixedFields(md) ==
    <<md.lp_mint, md.virtual_pool, md.partner, md.pool_creator, md.partner_lp, md.creator_lp>>

\* the roles whose flag differs between this state and the next
Flipped == {r \in Roles : FlagOf(metadata', r) # FlagOf(metadata, r)}

\* C11: frame of claim. No step changes lp_mint, the pool reference, the two
\* identities or the two amounts; a step that is an invocation (it changes
\* the ledger, a balance or the reported outcome) leaves the migration
\* progress as it was; a successful claim flips exactly one flag, from false
\* to true, and a failed one flips none.
C11_Frame ==
    [][/\ FixedFields(metadata') = FixedFields(metadata)
       /\ (metadata' # metadata \/ token' # token \/ lastResult' # lastResult)
             => progress' = progress
       /\ (ClaimStep /\ lastResult'.ok)
             => /\ Cardinality(Flipped) = 1
                /\ \A r \in Flipped : ~FlagOf(metadata, r) /\ FlagOf(metadata', r)
       /\ (progress' = progress /\ ~lastResult'.ok) => Flipped = {}]_vars

C11_Witness ==
    /\ lastResult.entered
    /\ lastResult.ok
    /\ lastResult.role = "Partner"
    /\ metadata.partner_claim_status
    /\ ~metadata.creator_claim_status
    /\ metadata.partner_lp = lastResult.amount
    /\ metadata.partner_lp > 0
    /\ metadata.creator_lp > 0

\* C12 as stated: the transfer is called for a role only in an invocation
\* made at the checkpoint with the role's amount positive and its flag false,
\* and when the call is made the role's flag in the ledger reads false.
C12_Original ==
    [][(ClaimStep /\ lastResult'.xfer # <<>>) =>
          \A i \in 1..Len(lastResult'.xfer) :
             LET c == lastResult'.xfer[i]
             IN /\ AtCheckpoint
                /\ LpOf(metadata, c.role) > 0
                /\ ~FlagOf(metadata, c.role)
                /\ ~c.flag]_vars

\* C12 amended: the transfer is called for a role only in an invocation made
\* at the checkpoint that found the role's amount positive and its flag
\* false, and for exactly that amount; when the call is made the flag in the
\* loaded ledger already reads true (it is set just before the call), and it
\* reads false again after the invocation only if the transfer failed.
C12_TransferOnlyWhenDue ==
    [][(ClaimStep /\ lastResult'.xfer # <<>>) =>
          \A i \in 1..Len(lastResult'.xfer) :
             LET c == lastResult'.xfer[i]
             IN /\ AtCheckpoint
                /\ LpOf(metadata, c.role) > 0
                /\ c.amount = LpOf(metadata, c.role)
                /\ ~FlagOf(metadata, c.role)
                /\ c.flag
                /\ FlagOf(metadata', c.role) = c.ok]_vars

C12_Witness ==
    /\ lastResult.entered
    /\ lastResult.ok
    /\ Len(lastResult.xfer) = 1
    /\ lastResult.xfer[1].role = "Creator"
    /\ lastResult.xfer[1].flag
    /\ lastResult.xfer[1].amount = metadata.creator_lp
    /\ AtCheckpoint

\* the steps of an invocation that passes every check, in order
AllSteps == <<CheckProgress, CheckOwner, CheckClaimed, CheckAmount, StepSetFlag, StepTransfer>>

\* C13: ordering within one invocation. The steps taken are an initial part
\* of: progress check, role resolution, claimed flag, positive amount, flag
\* set, transfer call. An invocation that fails a check stops at that check,
\* without flag write or transfer call; the transfer is called at most once,
\* only after the flag was set, and a successful invocation took every step.
C13_Ordering ==
    lastResult.entered =>
        /\ Len(lastResult.steps) <= Len(AllSteps)
        /\ lastResult.steps = SubSeq(AllSteps, 1, Len(lastResult.steps))
        /\ Len(lastResult.xfer) <= 1
        /\ lastResult.check \in GateChecks =>
              /\ lastResult.steps[Len(lastResult.steps)] = lastResult.check
              /\ lastResult.xfer = <<>>
        /\ lastResult.xfer # <<>> =>
              /\ lastResult.steps = AllSteps
              /\ lastResult.xfer[1].flag
        /\ lastResult.ok => lastResult.steps = AllSteps /\ lastResult.xfer # <<>>
        /\ lastResult.check = CheckTransfer =>
              lastResult.xfer # <<>> /\ ~lastResult.xfer[1].ok

C13_Witness ==
    /\ lastResult.entered
    /\ lastResult.ok
    /\ lastResult.role = "Partner"
    /\ lastResult.steps = AllSteps
    /\ Len(lastResult.xfer) = 1
    /\ metadata.partner_claim_status

\* the explored invocations that pass the account constraints
ValidCtx == {ctx \in MigrateMeteoraDammClaimLpTokenCtx : AccountsConstraints(ctx, metadata)}

\* what an invocation does, as seen from outside: its result and the ledger
\* and balances it leaves
Effect(r) == <<r.ok, r.err, r.role, r.amount, r.metadata, r.token>>

\* what the gate decided in an invocation: the role it resolved and the
\* checks it made, up to the flag write
GateDecision(r) ==
    <<r.role, SubSeq(r.steps, 1, IF Len(r.steps) < 4 THEN Len(r.steps) ELSE 4),
      IF r.check \in GateChecks THEN r.err ELSE NoError>>

\* an identity recorded for both roles is always resolved as Partner: its
\* claims use the partner's flag and amount and leave the creator's alone
TieBreak ==
    (ClaimStep /\ metadata.partner = metadata.pool_creator
        /\ lastResult'.owner = metadata.partner)
    => /\ lastResult'.role # "Creator"
       /\ lastResult'.role = NoRole => lastResult'.check = CheckProgress
       /\ metadata'.creator_claim_status = metadata.creator_claim_status
       /\ paid'["Creator"] = paid["Creator"]
       /\ lastResult'.check = CheckClaimed => metadata.partner_claim_status
       /\ \A i \in 1..Len(lastResult'.xfer) :
             /\ lastResult'.xfer[i].role = "Partner"
             /\ lastResult'.xfer[i].amount = metadata.partner_lp

\* C14 as stated: partner is compared first, so an identity recorded for both
\* roles always claims as Partner, and what an invocation does is determined
\* by the ledger, the progress and the beneficiary identity.
C14_Original ==
    /\ [][TieBreak]_vars
    /\ [](\A c1 \in ValidCtx, c2 \in ValidCtx :
            c1.owner = c2.owner => Effect(InvokeNow(c1)) = Effect(InvokeNow(c2)))

\* C14 amended: partner is compared first, so an identity recorded for both
\* roles always claims as Partner; the gate's decision (role resolved, checks
\* made, error of a failed check) is determined by the ledger, the progress
\* and the beneficiary identity, and what the invocation does is determined
\* by these together with the answer of the transfer.
C14_TieBreak ==
    /\ [][TieBreak]_vars
    /\ [](\A c1 \in ValidCtx, c2 \in ValidCtx :
            c1.owner = c2.owner =>
               /\ GateDecision(InvokeNow(c1)) = GateDecision(InvokeNow(c2))
               /\ c1.token_ok = c2.token_ok => Effect(InvokeNow(c1)) = Effect(InvokeNow(c2)))

C14_Witness ==
    /\ metadata.partner = metadata.pool_creator
    /\ lastResult.entered
    /\ lastResult.ok
    /\ lastResult.owner = metadata.pool_creator
    /\ lastResult.role = "Partner"
    /\ lastResult.amount = metadata.partner_lp
    /\ metadata.creator_lp > 0
    /\ metadata.creator_lp # metadata.partner_lp
    /\ ~metadata.creator_claim_status

\* the sum of the balances of the beneficiaries' token accounts
RECURSIVE SumDest(_, _)
SumDest(dest, ids) ==
    IF ids = {} THEN 0
    ELSE LET i == CHOOSE x \in ids : TRUE IN dest[i] + SumDest(dest, ids \ {i})

\* C15: bounded payout. The amount transferred on behalf of a role is its
\* entitlement if its flag is true and 0 otherwise; what the beneficiaries'
\* accounts hold is what was paid; every unit that leaves the custody
\* account arrives in a beneficiary's account; so the total moved out of
\* custody never exceeds partner_amount + creator_amount.
C15_BoundedPayout ==
    /\ [](/\ \A r \in Roles :
               paid[r] = IF FlagOf(metadata, r) THEN LpOf(metadata, r) ELSE 0
          /\ SumDest(token.dest, Identities) = paid["Partner"] + paid["Creator"]
          /\ SumDest(token.dest, Identities) <= metadata.partner_lp + metadata.creator_lp)
    /\ [][/\ token'.source + SumDest(token'.dest, Identities)
               = token.source + SumDest(token.dest, Identities)
          /\ token'.source <= token.source]_vars

C15_Witness ==
    /\ metadata.partner_claim_status
    /\ metadata.creator_claim_status
    /\ metadata.partner_lp > 0
    /\ metadata.creator_lp > 0
    /\ SumDest(token.dest, Identities) = metadata.partner_lp + metadata.creator_lp
    /\ lastResult.entered
    /\ ~lastResult.ok
    /\ lastResult.check = CheckClaimed

\* C16: stranded creator share. While one identity is recorded for both
\* roles the creator branch is never taken: creator_claimed stays false and
\* nothing is paid for the creator; and once the partner share is claimed, or
\* if it is 0, every claim by that identity fails and changes nothing.
C16_StrandedCreatorShare ==
    /\ [](metadata.partner = metadata.pool_creator =>
            /\ ~metadata.creator_claim_status
            /\ paid["Creator"] = 0
            /\ xferCount["Creator"] = 0
            /\ lastResult.role # "Creator")
    /\ [][(ClaimStep /\ metadata.partner = metadata.pool_creator
              /\ lastResult'.owner = metadata.partner
              /\ (metadata.partner_claim_status \/ metadata.partner_lp = 0))
          => /\ ~lastResult'.ok
             /\ lastResult'.err = NotPermitToDoThisAction
             /\ NothingChanged]_vars

C16_Witness ==
    /\ metadata.partner = metadata.pool_creator
    /\ metadata.partner_claim_status
    /\ ~metadata.creator_claim_status
    /\ metadata.creator_lp > 0
    /\ token.source >= metadata.creator_lp
    /\ lastResult.entered
    /\ lastResult.owner = metadata.pool_creator
    /\ ~lastResult.ok
    /\ lastResult.check = CheckClaimed

\* ------------------------------------------------------------- liveness
\* a claim by the beneficiary of role r that goes through: an invocation with
\* the right accounts and a transfer the token program accepts, made while
\* the pool is at the checkpoint, that sets r's flag
ClaimBy(r) ==
    /\ progress[metadata.virtual_pool] = CreatedPool
    /\ metadata' = (IF r = "Partner" THEN set_partner_claim_status(metadata)
                                     ELSE set_creator_claim_status(metadata))
    /\ metadata' # metadata
    /\ \E s \in Senders :
        Claim([virtual_pool |-> metadata.virtual_pool,
               lp_mint |-> metadata.lp_mint,
               destination_token |-> IF r = "Partner" THEN metadata.partner
                                                     ELSE metadata.pool_creator,
               owner |-> IF r = "Partner" THEN metadata.partner
                                         ELSE metadata.pool_creator,
               sender |-> s,
               token_ok |-> TRUE])

\* the claim operation under fair invocation of both beneficiaries: a claim
\* that would go through is not put off for ever
LiveSpec ==
    /\ Init
    /\ [][Next]_vars
    /\ WF_vars(\E r \in Roles : ClaimBy(r))

\* what the roles that have not claimed are still entitled to
Outstanding ==
    (IF metadata.partner_claim_status THEN 0 ELSE metadata.partner_lp)
    + (IF metadata.creator_claim_status THEN 0 ELSE metadata.creator_lp)

\* the pool is at the checkpoint, the two beneficiaries are distinct and the
\* custody account holds what is still to be claimed
Claimable ==
    /\ AtCheckpoint
    /\ metadata.partner # metadata.pool_creator
    /\ token.source >= Outstanding

\* every role with a positive entitlement has claimed
Settled == \A r \in Roles : LpOf(metadata, r) > 0 => FlagOf(metadata, r)

\* C17: claimability. While the ledger is claimable, an invocation for a
\* role with positive entitlement and flag false whose transfer the token
\* program accepts succeeds; so under fair invocation of both beneficiaries
\* a claimable ledger eventually is, and from then on stays, settled; and
\* every claim on a settled ledger fails and changes nothing.
C17_Claimability ==
    /\ [](\A r \in Roles : \A ctx \in ValidCtx :
            (Claimable /\ ctx.owner = IdOf(metadata, r) /\ ctx.token_ok
                /\ LpOf(metadata, r) > 0 /\ ~FlagOf(metadata, r))
            => /\ InvokeNow(ctx).ok
               /\ FlagOf(InvokeNow(ctx).metadata, r)
               /\ InvokeNow(ctx).amount = LpOf(metadata, r))
    /\ [](Claimable => <>[]Settled)
    /\ [][(ClaimStep /\ Settled) => (~lastResult'.ok /\ NothingChanged)]_vars

C17_Witness ==
    /\ Claimable
    /\ Settled
    /\ metadata.partner_claim_status
    /\ metadata.creator_claim_status
    /\ token.source = 0
    /\ lastResult.entered
    /\ ~lastResult.ok
    /\ lastResult.check = CheckClaimed

====
